---- MODULE Spec2Model ----
(***************************************************************************)
(* The video pipeline of the repository, in its two implementations:       *)
(*   "app"    main.py + app/core/processor.py (VideoProcessor) with        *)
(*            app/core/downloader.py, app/services/google_sheets.py,       *)
(*            app/services/google_drive.py;                                *)
(*   "legacy" src/youtube_manager.py (YouTubeManager) with                 *)
(*            utils/validators.py and config/config.py.                    *)
(* One behaviour runs one of the two programs (impl) under one             *)
(* configuration.  Every call to an external collaborator (yt-dlp, the     *)
(* spreadsheet, Drive, the file system) is a step whose outcome the        *)
(* environment chooses.                                                    *)
(***************************************************************************)
EXTENDS Integers, Sequences, FiniteSets, TLC

\* Number of process_video calls one behaviour may start.
MaxCalls == 2

----------------------------------------------------------------------------
(* The video platform: what yt-dlp's extract_info reports for each id.     *)

VideoIds == {"idA", "idB", "idX"}

\* The lines typed at the prompt, by name (InputLine gives their text): q in
\* either case, the empty line, a URL that carries no identifier, the bare
\* identifier of a video, and a short link and a watch URL with a further
\* parameter for the video idA.
Inputs == {"q", "Q", "", "bad"} \cup VideoIds \cup {"youtu.be/idA", "watch?v=idA&t=1"}

\* info as returned by ydl.extract_info(url, download=False) for a video of
\* the given kind.  idB's description is the title of idA.
Meta(v, kind) ==
  [id          |-> v,
   title       |-> CASE v = "idA" -> "A" [] v = "idB" -> "B" [] OTHER -> "X",
   description |-> IF v = "idB" THEN "A" ELSE "desc",
   is_live     |-> kind = "live",
   entries     |-> kind = "playlist",
   age_limit   |-> IF kind = "age" THEN 18 ELSE 0]

\* What the platform holds under each id: idA and idB are plain videos, idX
\* is a live stream, a playlist or an age-restricted video.
Kinds(v) == IF v = "idX" THEN {"live", "playlist", "age"} ELSE {"plain"}

----------------------------------------------------------------------------
(* The tracking sheet: a sequence of rows, each a tuple of cell strings.   *)

\* GoogleSheetsService.HEADERS
HEADERS ==
  <<"Title", "Description", "Tags", "Category", "Drive File ID", "Playlist",
    "Thumbnail", "Upload Date", "Download Status", "Upload Status">>

\* config.HEADERS of the legacy program
LEGACY_HEADERS ==
  <<"Title", "Description", "Tags", "Category", "Thumbnail", "Playlist",
    "Video ID", "Upload Date", "Drive File ID", "Download Status">>

\* HEADERS.index(name) + 1
ColDriveFileId == 5
ColDownloadStatus == 9
ColUploadStatus == 10
\* the legacy row layout (get_video_data / update_spreadsheet)
LegacyColVideoId == 7
LegacyColDriveFileId == 9
LegacyColDownloadStatus == 10

\* worksheet.append_row(row)
append_row(sh, row) == Append(sh, row)

\* worksheet.row_values(r)
row_values(sh, r) == IF r <= Len(sh) THEN sh[r] ELSE <<>>

\* worksheet.col_values(c), as the set the membership test reads
col_values(sh, c) == {sh[r][c] : r \in 1..Len(sh)}

\* worksheet.find(query): the row of the first cell, rows first, whose text is
\* the query; 0 when no cell matches (gspread returns None).
find(sh, query) ==
  LET hits == {r \in 1..Len(sh) : \E c \in 1..Len(sh[r]) : sh[r][c] = query}
  IN IF hits = {} THEN 0 ELSE CHOOSE r \in hits : \A q \in hits : r <= q

\* worksheet.update_cell(r, c, value)
update_cell(sh, r, c, value) == [sh EXCEPT ![r][c] = value]

\* add_video's row_data
add_video_row(metadata) ==
  <<metadata.title, metadata.description, "tags", "cat", "", "",
    "thumb", "date", "Pending", "Pending">>

\* get_video_data's video_data
get_video_data_row(info) ==
  <<info.title, info.description, "tags", "cat", "thumb", "NOTHINHG",
    info.id, "date", "", "Pending">>

----------------------------------------------------------------------------
(* The local file system: each path is absent, empty (zero bytes) or holds *)
(* data.                                                                   *)

Dirs == {"temp", "processed", "Videos_id", "Videos_title", "Videos_backup"}
FsPaths == Dirs \X VideoIds
NoPath == <<"none", "none">>

\* Path.exists()
exists(f, p) == p \in DOMAIN f /\ f[p] # "absent"

\* Path.unlink()
unlink(f, p) == [f EXCEPT ![p] = "absent"]

\* Path.rename(target)
rename(f, src, dst) == [f EXCEPT ![dst] = f[src], ![src] = "absent"]

\* shutil.copy2(src, dst)
copy2(f, src, dst) == [f EXCEPT ![dst] = f[src]]

\* get_video_path(id, title, directory, temp)
get_video_path(v, temp) == IF temp THEN <<"temp", v>> ELSE <<"processed", v>>

\* str(video_path) for a path of the processed directory
str_path(p) ==
  CASE p[2] = "idA" -> "processed/A_idA.mp4"
    [] p[2] = "idB" -> "processed/B_idB.mp4"
    [] OTHER -> "processed/X_idX.mp4"

\* The ids Drive hands out, one per completed upload.
FileIds == <<"f1", "f2", "f3", "f4">>

----------------------------------------------------------------------------
(* Strings as the validators and the sanitizer see them: sequences of      *)
(* characters.                                                             *)

LF == "\n"

UpperCase == {"A","B","C","D","E","F","G","H","I","J","K","L","M",
              "N","O","P","Q","R","S","T","U","V","W","X","Y","Z"}
LowerCase == {"a","b","c","d","e","f","g","h","i","j","k","l","m",
              "n","o","p","q","r","s","t","u","v","w","x","y","z"}
Digits == {"0","1","2","3","4","5","6","7","8","9"}

\* the character class [a-zA-Z0-9_-]
IdClass == UpperCase \cup LowerCase \cup Digits \cup {"_", "-"}

\* the {11} of the video id patterns
IdLen == 11

\* The element of a one-element set.  {e(x) : x \in {a}} computes a once and
\* names its value x, so an intermediate result is computed a single time.
Only(S) == CHOOSE x \in S : TRUE

\* c * n
Rep(c, n) == [i \in 1..n |-> c]

\* s[i:] and s[:i] of Python, for 0 <= i
From(s0, i0) ==
  Only({SubSeq(s, i + 1, Len(s)) : s \in {s0}, i \in {i0}})
Upto(s0, i0) ==
  Only({SubSeq(s, 1, IF i > Len(s) THEN Len(s) ELSE i) : s \in {s0}, i \in {i0}})

\* the least element of a non-empty set of numbers
Least(S) == CHOOSE i \in S : \A j \in S : i <= j

\* s.find(pat) + 1: the position of the first occurrence of pat in s, 0 when
\* s does not contain it
IndexOf(s0, pat0) ==
  Only({Only({IF hits = {} THEN 0 ELSE Least(hits) :
                hits \in {{i \in 1..(Len(s) - Len(pat) + 1) :
                             SubSeq(s, i, i + Len(pat) - 1) = pat}}}) :
          s \in {s0}, pat \in {pat0}})

\* pat in s
Contains(s, pat) == IndexOf(s, pat) # 0

\* s.startswith(pat)
StartsWith(s0, pat0) ==
  Only({Len(s) >= Len(pat) /\ SubSeq(s, 1, Len(pat)) = pat :
          s \in {s0}, pat \in {pat0}})

\* s.split(sep): the pieces of s between the occurrences of sep
RECURSIVE Split(_, _)
Split(s0, sep0) ==
  Only({Only({IF i = 0 THEN <<s>>
              ELSE <<Upto(s, i - 1)>>
                   \o Only({Split(rest, sep) : rest \in {From(s, i - 1 + Len(sep))}}) :
                i \in {IndexOf(s, sep)}}) :
          s \in {s0}, sep \in {sep0}})

\* s.lstrip(chars), s.rstrip(chars), s.strip(chars): the leading (trailing)
\* run of characters of chars is dropped
LStrip(s0, chars) ==
  Only({From(s, CHOOSE k \in 0..Len(s) :
                  /\ k = Len(s) \/ s[k + 1] \notin chars
                  /\ \A i \in 1..k : s[i] \in chars) :
          s \in {s0}})
RStrip(s0, chars) ==
  Only({Upto(s, Len(s) - (CHOOSE k \in 0..Len(s) :
                            /\ k = Len(s) \/ s[Len(s) - k] \notin chars
                            /\ \A i \in 1..k : s[Len(s) + 1 - i] \in chars)) :
          s \in {s0}})
Strip(s, chars) == RStrip(LStrip(s, chars), chars)

\* the characters str.strip() removes
Whitespace == {" ", "\t", LF, "\r"}

\* a video id pattern that leaves the `_` and `-` out of the class
match_video_id_alnum(s0) ==
  Only({/\ Len(s) \in {IdLen, IdLen + 1}
        /\ \A i \in 1..IdLen : s[i] \in UpperCase \cup LowerCase \cup Digits
        /\ Len(s) = IdLen + 1 => s[IdLen + 1] = LF :
          s \in {s0}})

\* re.match(r'^[a-zA-Z0-9_-]{11}$', s): eleven characters of the class, then
\* the end of the string; `$` also matches just before a final newline.
match_video_id(s0) ==
  Only({/\ Len(s) \in {IdLen, IdLen + 1}
        /\ \A i \in 1..IdLen : s[i] \in IdClass
        /\ Len(s) = IdLen + 1 => s[IdLen + 1] = LF :
          s \in {s0}})

----------------------------------------------------------------------------
(* urllib.parse, as far as the validators use it.                          *)

\* the first position of s that holds one of chars, Len(s) + 1 when none does
FirstOf(s0, chars) ==
  Only({Only({IF hits = {} THEN Len(s) + 1 ELSE Least(hits) :
                hits \in {{i \in 1..Len(s) : s[i] \in chars}}}) :
          s \in {s0}})

\* the characters of a URL scheme
SchemeChars == UpperCase \cup LowerCase \cup Digits \cup {"+", "-", "."}

\* urlsplit, once the scheme is known: u1 is the URL after it.  The netloc
\* follows '//' up to the next '/', '?' or '#'; then come the path, the query
\* after '?' and the fragment after '#'.
urlparse_rest(scheme, u1) ==
  LET hasNetloc == StartsWith(u1, <<"/", "/">>)
  IN Only({Only({Only({
       [scheme |-> scheme,
        netloc |-> IF hasNetloc THEN Upto(afterSlashes, delim - 1) ELSE <<>>,
        path   |-> Upto(u3, FirstOf(u3, {"?"}) - 1),
        query  |-> From(u3, FirstOf(u3, {"?"}))] :
         u3 \in {Only({Upto(u2, FirstOf(u2, {"#"}) - 1) :
                   u2 \in {IF hasNetloc THEN From(afterSlashes, delim - 1) ELSE u1}})}}) :
         delim \in {FirstOf(afterSlashes, {"/", "?", "#"})}}) :
         afterSlashes \in {From(u1, 2)}})

\* urlparse(url): tab, CR and LF are removed, the scheme is what precedes the
\* first ':' when it is made of scheme characters and starts with a letter.
urlparse(url) ==
  Only({Only({
    IF /\ colon > 1 /\ colon <= Len(u0)
       /\ u0[1] \in UpperCase \cup LowerCase
       /\ \A i \in 1..(colon - 1) : u0[i] \in SchemeChars
      THEN urlparse_rest(Upto(u0, colon - 1), From(u0, colon))
      ELSE urlparse_rest(<<>>, u0) :
        colon \in {FirstOf(u0, {":"})}}) :
        u0 \in {SelectSeq(url, LAMBDA c : c \notin {"\t", "\r", LF})}})

\* ParseResult.hostname: the netloc without user info and port; <<>> is None.
\* (The lower-casing is not modelled: the hosts of the inputs are lower case.)
hostname(netloc) ==
  Only({Only({Upto(hostinfo, FirstOf(hostinfo, {":"}) - 1) :
                hostinfo \in {parts[Len(parts)]}}) :
          parts \in {Split(netloc, <<"@">>)}})

\* the %XX escapes of the inputs and what unquote makes of them
Escapes == {<<"0", "A">>, <<"2", "0">>}
Unescape(xx) == IF xx = <<"0", "A">> THEN LF ELSE " "

\* unquote(s.replace('+', ' '))
RECURSIVE unquote_plus(_)
unquote_plus(s0) ==
  Only({IF s = <<>> THEN <<>>
        ELSE IF s[1] = "%" /\ Len(s) >= 3 /\ <<s[2], s[3]>> \in Escapes
          THEN <<Unescape(<<s[2], s[3]>>)>>
               \o Only({unquote_plus(rest) : rest \in {From(s, 3)}})
        ELSE <<IF s[1] = "+" THEN " " ELSE s[1]>>
             \o Only({unquote_plus(rest) : rest \in {Tail(s)}}) :
          s \in {s0}})

\* one field name=value of a query as the pair <<name, value>>, both decoded
parse_qs_pair(field) ==
  Only({<<unquote_plus(Upto(field, eq - 1)), unquote_plus(From(field, eq))>> :
          eq \in {IndexOf(field, <<"=">>)}})

\* parse_qs(query): the fields between '&' that have a '=' and a value that
\* is not blank, as <<name, value>> pairs, in their order
parse_qs(query) ==
  Only({[k \in 1..Len(named) |-> parse_qs_pair(named[k])] :
          named \in {SelectSeq(Split(query, <<"&">>),
                       LAMBDA f : /\ Contains(f, <<"=">>)
                                  /\ IndexOf(f, <<"=">>) < Len(f))}})

\* 'v' in parse_qs(query)
has_v(query) ==
  Only({\E k \in 1..Len(qs) : qs[k][1] = <<"v">> : qs \in {parse_qs(query)}})

\* parse_qs(query)['v'][0]
first_v(query) ==
  Only({qs[Least({k \in 1..Len(qs) : qs[k][1] = <<"v">>})][2] :
          qs \in {parse_qs(query)}})

----------------------------------------------------------------------------
(* The two validators.                                                     *)

\* an Optional[str]
None == [some |-> FALSE, s |-> <<>>]
Some(s) == [some |-> TRUE, s |-> s]

\* what a validator call produces: the returned id, or the exception raised
Return(s) == [ok |-> TRUE, value |-> s, kind |-> ""]
Raise(kind) == [ok |-> FALSE, value |-> <<>>, kind |-> kind]

HostWww == <<"w","w","w",".","y","o","u","t","u","b","e",".","c","o","m">>
HostApex == <<"y","o","u","t","u","b","e",".","c","o","m">>
HostMobile == <<"m",".","y","o","u","t","u","b","e",".","c","o","m">>
HostShort == <<"y","o","u","t","u",".","b","e">>
HostOther == <<"v","i","m","e","o",".","c","o","m">>
Https == <<"h","t","t","p","s",":","/","/">>

\* ['www.youtube.com', 'youtube.com', 'm.youtube.com']
YOUTUBE_HOSTS == {HostWww, HostApex, HostMobile}

\* a host list that lacks the mobile subdomain
is_youtube_host_no_mobile(h) == h \in {HostWww, HostApex}

\* a host test that only asks for some host
is_youtube_host_any(h) == h # <<>>

\* `parsed_url.hostname in [...]` (app), `parsed_url.netloc in [...]` (legacy)
is_youtube_host(h) == h \in YOUTUBE_HOSTS

PathWatch == <<"/","w","a","t","c","h">>
PathShorts == <<"/","s","h","o","r","t","s">>
MarkShorts == <<"/","s","h","o","r","t","s","/">>
MarkEmbed == <<"/","e","m","b","e","d","/">>
MarkV == <<"/","v","/">>
WordWatch == <<"w","a","t","c","h">>
WordShorts == <<"s","h","o","r","t","s">>
WordEmbed == <<"e","m","b","e","d">>

\* path.split(marker)[1].split('?')[0]
after_marker(path, marker) ==
  Only({Split(piece, <<"?">>)[1] : piece \in {Split(path, marker)[2]}})

\* app validate_youtube_url, lines 37-58: the video_id taken from the parsed
\* URL (its hostname, path and query), None when no pattern applies
app_video_id(host, path, query) ==
  IF is_youtube_host(host)
    THEN IF path \in {PathWatch, PathShorts}
           THEN IF has_v(query) THEN Some(first_v(query)) ELSE None
         ELSE IF Contains(path, MarkShorts) THEN Some(after_marker(path, MarkShorts))
         ELSE IF StartsWith(path, MarkEmbed) THEN Some(after_marker(path, MarkEmbed))
         ELSE IF StartsWith(path, MarkV) THEN Some(after_marker(path, MarkV))
         ELSE None
  ELSE IF host = HostShort
    THEN Some(Split(LStrip(path, {"/"}), <<"?">>)[1])
  ELSE None

\* app.utils.validators.validate_youtube_url
validate_youtube_url(url) ==
  Only({IF match_video_id(u) THEN Return(u)
        ELSE Only({Only({
               IF video_id.some /\ video_id.s # <<>> /\ match_video_id(video_id.s)
                 THEN Return(video_id.s)
                 ELSE Raise("ValidationError") :
                   video_id \in {Only({app_video_id(host, parsed.path, parsed.query) :
                                   host \in {hostname(parsed.netloc)}})}}) :
                   parsed \in {urlparse(u)}}) :
          u \in {Strip(url, Whitespace)}})

\* path.split('/')[-1]
last_segment(path) ==
  Only({segments[Len(segments)] : segments \in {Split(path, <<"/">>)}})

\* utils.validators.extract_video_id_from_url
extract_video_id_from_url(url) ==
  IF match_video_id(url) THEN Return(url)
  ELSE Only({
    IF parsed.netloc = HostShort THEN Return(LStrip(parsed.path, {"/"}))
    ELSE IF is_youtube_host(parsed.netloc)
      THEN IF Contains(parsed.path, WordWatch) /\ has_v(parsed.query)
             THEN Return(first_v(parsed.query))
           ELSE IF Contains(parsed.path, WordShorts) THEN Return(last_segment(parsed.path))
           ELSE IF Contains(parsed.path, WordEmbed) THEN Return(last_segment(parsed.path))
           ELSE Raise("ValidationError")
    ELSE Raise("ValidationError") :
      parsed \in {urlparse(url)}})

\* utils.validators.validate_youtube_url
legacy_validate_youtube_url(url) ==
  IF url = <<>> THEN Raise("ValidationError")
  ELSE Only({Only({
         IF ~r.ok THEN r
         ELSE IF ~match_video_id(r.value) THEN Raise("ValidationError")
         ELSE Return(r.value) :
           r \in {extract_video_id_from_url(u)}}) :
           u \in {Strip(url, Whitespace)}})

----------------------------------------------------------------------------
(* The two filename sanitizers.                                            *)

\* the characters of the class [<>:"/\\|?*]
FORBIDDEN == {"<", ">", ":", "\"", "/", "\\", "|", "?", "*"}

\* characters with ord(c) >= 128, each written as one token
NonAscii == {"U+00E9", "U+4E2D"}

\* `if len(filename) > 200` and `[:196]`
MAX_LENGTH == 200
KEPT_LENGTH == 196

Ellipsis == <<".", ".", ".">>

\* s with every character of the set chars replaced by c
ReplaceIn(s0, chars, c) ==
  Only({[i \in 1..Len(s) |-> IF s[i] \in chars THEN c ELSE s[i]] : s \in {s0}})

\* a sanitizer without the `_+` substitution
CollapseRuns_skipped(s0, c) == s0

\* re.sub(c+, c, s): every run of the character c shrunk to one c
CollapseRuns(s0, c) ==
  Only({Only({[i \in 1..Len(kept) |-> kept[i][1]] :
                kept \in {SelectSeq(
                   [i \in 1..Len(s) |-> <<s[i], IF i > 1 THEN s[i - 1] ELSE "">>],
                   LAMBDA p : ~(p[1] = c /\ p[2] = c))}}) :
          s \in {s0}})

\* the last position of s that holds c, 0 when none does
LastOf(s0, c) ==
  Only({Only({IF hits = {} THEN 0 ELSE CHOOSE i \in hits : \A j \in hits : i >= j :
                hits \in {{i \in 1..Len(s) : s[i] = c}}}) :
          s \in {s0}})

\* os.path.splitext(p): <<root, ext>>; the extension starts at the last dot
\* of the last path component, unless only dots precede it there
splitext(p0) ==
  Only({IF dot > sep /\ \E i \in (sep + 1)..(dot - 1) : p[i] # "."
          THEN <<Upto(p, dot - 1), From(p, dot - 1)>>
          ELSE <<p, <<>>>> :
          p \in {p0}, sep \in {LastOf(p0, "/")}, dot \in {LastOf(p0, ".")}})

\* lines 65-75 of helpers.sanitize_filename, the same result as lines 57-64
\* of youtube_manager.sanitize_filename: replace, collapse, strip
sanitize_clean(filename, nonascii_runs) ==
  Strip(CollapseRuns(
          IF nonascii_runs
            THEN ReplaceIn(CollapseRuns(
                   ReplaceIn(ReplaceIn(filename, FORBIDDEN, "_"), NonAscii, "U+"),
                   "U+"), {"U+"}, "_")
            ELSE ReplaceIn(ReplaceIn(filename, FORBIDDEN, "_"), NonAscii, "_"),
          "_"),
        {".", " "})

\* lines 79-80: name, ext = os.path.splitext(filename); name[:196] + '...' + ext
truncate_keep_ext(s) ==
  Only({Upto(parts[1], KEPT_LENGTH) \o Ellipsis \o parts[2] : parts \in {splitext(s)}})

\* app.utils.helpers.sanitize_filename
sanitize_filename(filename) ==
  Only({IF Len(s) > MAX_LENGTH THEN truncate_keep_ext(s) ELSE s :
          s \in {sanitize_clean(filename, FALSE)}})

\* src.youtube_manager.sanitize_filename
legacy_sanitize_filename(filename) ==
  Only({IF Len(s) > MAX_LENGTH THEN Upto(s, KEPT_LENGTH) \o Ellipsis ELSE s :
          s \in {sanitize_clean(filename, TRUE)}})

----------------------------------------------------------------------------
(* The text of the input lines, and what the programs make of a line.      *)

\* the 11 characters of the identifier of a video
IdText(v) ==
  CASE v = "idA" -> Rep("A", IdLen)
    [] v = "idB" -> Rep("B", IdLen)
    [] OTHER     -> Rep("X", IdLen)

\* the video whose identifier has the text s
IdToken(s) == CHOOSE v \in VideoIds : IdText(v) = s

\* f'https://www.youtube.com/watch?v={video_id}' (youtube_manager, line 342)
watch_url(v) == Https \o HostWww \o PathWatch \o <<"?", "v", "=">> \o IdText(v)

\* what input() returns for the line named u
InputLine(u) ==
  CASE u \in VideoIds         -> IdText(u)
    [] u = "youtu.be/idA"     -> Https \o HostShort \o <<"/">> \o IdText("idA")
    [] u = "watch?v=idA&t=1"  -> watch_url("idA") \o <<"&", "t", "=", "1">>
    [] u = "bad"              -> Https \o HostOther \o <<"/">> \o IdText("idA")
    [] u = "q"                -> <<"q">>
    [] u = "Q"                -> <<" ", "Q">>
    [] OTHER                  -> <<>>

UpperSeq == <<"A","B","C","D","E","F","G","H","I","J","K","L","M",
              "N","O","P","Q","R","S","T","U","V","W","X","Y","Z">>
LowerSeq == <<"a","b","c","d","e","f","g","h","i","j","k","l","m",
              "n","o","p","q","r","s","t","u","v","w","x","y","z">>

\* s.lower()
str_lower(s) ==
  [i \in 1..Len(s) |->
     IF s[i] \in UpperCase
       THEN LowerSeq[CHOOSE k \in 1..Len(UpperSeq) : UpperSeq[k] = s[i]]
       ELSE s[i]]

\* url = input(...).strip()
read_line(u) == Strip(InputLine(u), Whitespace)

\* url.lower() == 'q'
is_quit(line) == str_lower(line) = <<"q">>

----------------------------------------------------------------------------
VARIABLES
  impl,             \* which program runs: "app" or "legacy"
  KEEP_FILES,       \* Settings.KEEP_FILES / config.KEEP_FILE
  UPLOAD_TO_DRIVE,  \* Settings.UPLOAD_TO_DRIVE (the legacy program always uploads)
  sheet,            \* the tracking sheet
  fs,               \* the local file system
  drive,            \* ids of the files uploaded to Drive
  pc,               \* position of the CLI loop / of process_video
  calls,            \* process_video calls started
  url,              \* the input line read at the prompt (by name)
  loc,              \* process_video's locals
  outcome,          \* "none" | "Processed" | "AlreadyExists" | "Error"
  err,              \* the exception process_video raised
  hist,             \* what the current call has done so far (observation only)
  probe             \* a validator or sanitizer called on its own: input and result

vars == <<impl, KEEP_FILES, UPLOAD_TO_DRIVE, sheet, fs, drive, pc, calls, url,
          loc, outcome, err, hist, probe>>

config == <<impl, KEEP_FILES, UPLOAD_TO_DRIVE>>

NoErr == [kind |-> "", cause |-> "", msg |-> ""]
Err(kind, cause, msg) == [kind |-> kind, cause |-> cause, msg |-> msg]

NoInfo == [id |-> "", title |-> "", description |-> "", is_live |-> FALSE,
           entries |-> FALSE, age_limit |-> 0]

InitLoc == [video_id |-> "", video_info |-> NoInfo, video_data |-> <<>>,
            video_path |-> NoPath, file_id |-> ""]

InitHist(sh) ==
  [sheet0     |-> sh,       \* the sheet when process_video was called
   reported   |-> NoInfo,   \* the info extract_info returned
   downloadStarted |-> FALSE,
   dl         |-> "none",   \* what the download left: raise/absent/empty/data
   promoted   |-> "none",   \* size of the file renamed to its final name
   created    |-> {},       \* paths this call created
   unlinked   |-> {},       \* paths this call tried to delete
   unlinkFailed |-> FALSE,  \* a deletion of this call failed
   cleanupFailed |-> FALSE, \* the deletion that ends the call failed
   invoked    |-> {},       \* the collaborators this call has called
   fetchUrl   |-> <<>>,     \* the URL handed to extract_info for the metadata
   downloadUrl |-> <<>>,    \* the URL handed to the download
   uploadInvoked |-> FALSE,
   uploadOk   |-> FALSE,
   rowWrite   |-> "none",   \* none / ok / dup / fail: the row update's result
   preUpdate  |-> <<>>,     \* the sheet when update_video_status was called
   updRow     |-> 0]        \* the row update_video_status located

\* no function is being called on its own
NoProbe == [fn |-> "", src |-> <<>>, arg |-> <<>>, done |-> FALSE,
            ok |-> FALSE, value |-> <<>>, kind |-> "", again |-> <<>>]

ProbeOf(fn, src, arg) == [NoProbe EXCEPT !.fn = fn, !.src = src, !.arg = arg]

\* A sheet the app program left behind: its header and one of its rows.
AppSheet == <<HEADERS, add_video_row(Meta("idB", "plain"))>>

Init ==
  /\ impl \in {"app", "legacy"}
  /\ KEEP_FILES \in BOOLEAN
  /\ UPLOAD_TO_DRIVE \in (IF impl = "app" THEN BOOLEAN ELSE {TRUE})
  \* The app program provisions the header when the service is constructed;
  \* the legacy program does so inside process_video, so it may start on an
  \* empty sheet, on its own sheet, or on a sheet with another header.
  /\ sheet \in (IF impl = "app" THEN {<<HEADERS>>}
                ELSE {<<>>, <<LEGACY_HEADERS>>, AppSheet})
  /\ fs = [p \in FsPaths |-> "absent"]
  /\ drive = {}
  /\ pc = "prompt"
  /\ calls = 0
  /\ url = ""
  /\ loc = InitLoc
  /\ outcome = "none"
  /\ err = NoErr
  /\ hist = InitHist(sheet)
  /\ probe = NoProbe

----------------------------------------------------------------------------
(* How a call ends.                                                        *)

\* the except clause with a bare `raise`: the exception leaves as it was caught
AppReraise(cause, msg) ==
  /\ outcome' = "Error"
  /\ err' = Err(cause, "", msg)
  /\ pc' = "returned"

\* app: every exception leaves process_video as ProcessingError (line 94-95),
\* the exception caught being its context.
AppRaise(cause, msg) ==
  /\ outcome' = "Error"
  /\ err' = Err("ProcessingError", cause, msg)
  /\ pc' = "returned"

AppReturn ==
  /\ outcome' = "Processed"
  /\ err' = NoErr
  /\ pc' = "returned"


----------------------------------------------------------------------------
(* The CLI loop: main.process_videos (app), youtube_manager.main (legacy). *)

StartCall(u) ==
  /\ calls < MaxCalls
  /\ calls' = calls + 1
  /\ url' = u
  /\ loc' = InitLoc
  /\ outcome' = "none"
  /\ err' = NoErr
  /\ hist' = InitHist(sheet)
  /\ pc' = IF impl = "app" THEN "a_validate" ELSE "l_validate"
  /\ UNCHANGED <<config, probe, sheet, fs, drive>>

\* `if url.lower() == 'q': break`
cli_quit ==
  /\ pc = "prompt"
  /\ \E u \in Inputs :
       /\ is_quit(read_line(u))
       /\ url' = u
  /\ pc' = "exited"
  /\ UNCHANGED <<config, probe, sheet, fs, drive, calls, loc, outcome, err, hist>>

\* app: `if not url: print("URL cannot be empty!"); continue`
cli_empty ==
  /\ pc = "prompt"
  /\ impl = "app"
  /\ \E u \in Inputs :
       /\ ~is_quit(read_line(u))
       /\ read_line(u) = <<>>
  /\ UNCHANGED vars

\* any other line goes to process_video; the legacy loop has no test for
\* the empty line and hands it to process_video too
cli_process ==
  /\ pc = "prompt"
  /\ \E u \in Inputs :
       /\ ~is_quit(read_line(u))
       /\ impl = "app" => read_line(u) # <<>>
       /\ StartCall(u)

\* the result or the error is printed and the loop prompts again; the
\* call's locals are gone
cli_continue ==
  /\ pc = "returned"
  /\ pc' = "prompt"
  /\ url' = ""
  /\ loc' = InitLoc
  /\ outcome' = "none"
  /\ err' = NoErr
  /\ hist' = InitHist(sheet)
  /\ UNCHANGED <<config, probe, sheet, fs, drive, calls>>

----------------------------------------------------------------------------
(* app: VideoProcessor.process_video, one step per collaborator call.      *)

\* app.utils.validators.validate_youtube_url
a_validate ==
  /\ pc = "a_validate"
  /\ \E r \in {validate_youtube_url(read_line(url))} :
       IF r.ok
         THEN /\ loc' = [loc EXCEPT !.video_id = IdToken(r.value)]
              /\ pc' = "a_info"
              /\ UNCHANGED <<outcome, err>>
         ELSE /\ AppRaise(r.kind, "Could not extract valid video ID from URL")
              /\ UNCHANGED loc
  /\ UNCHANGED <<config, probe, sheet, fs, drive, calls, url, hist>>

\* The checks of get_video_info on the info extract_info returned: the
\* message of the DownloadError it raises, "" when the video is accepted.
get_video_info_reject(info) ==
  IF info.entries THEN "URL appears to be a playlist"
  ELSE IF info.is_live THEN "Live streams are not supported"
  ELSE IF info.age_limit > 0 THEN "Age-restricted videos are not supported"
  ELSE ""

\* YouTubeDownloader.get_video_info
a_info ==
  /\ pc = "a_info"
  /\ \E res \in {"info", "YTDLError", "URLError"}, kind \in Kinds(loc.video_id) :
       IF res # "info"
         THEN /\ AppRaise("DownloadError", res)
              /\ hist' = [hist EXCEPT !.invoked = @ \cup {"fetch"},
                                      !.fetchUrl = read_line(url)]
              /\ UNCHANGED loc
         ELSE /\ hist' = [hist EXCEPT !.reported = Meta(loc.video_id, kind),
                                      !.invoked = @ \cup {"fetch"},
                                      !.fetchUrl = read_line(url)]
              /\ IF get_video_info_reject(Meta(loc.video_id, kind)) # ""
                   THEN /\ AppRaise("DownloadError",
                                    get_video_info_reject(Meta(loc.video_id, kind)))
                        /\ UNCHANGED loc
                   ELSE /\ loc' = [loc EXCEPT !.video_info = Meta(loc.video_id, kind)]
                        /\ pc' = "a_add"
                        /\ UNCHANGED <<outcome, err>>
  /\ UNCHANGED <<config, probe, sheet, fs, drive, calls, url>>

\* GoogleSheetsService.add_video
add_video(sh, metadata) == append_row(sh, add_video_row(metadata))

a_add ==
  /\ pc = "a_add"
  /\ \E ok \in BOOLEAN :
       IF ok
         THEN /\ sheet' = add_video(sheet, loc.video_info)
              /\ pc' = "a_download"
              /\ UNCHANGED <<outcome, err>>
         ELSE /\ AppRaise("GoogleSheetsError", "Failed to add video to spreadsheet")
              /\ UNCHANGED sheet
  /\ hist' = [hist EXCEPT !.invoked = @ \cup {"sheet"}]
  /\ UNCHANGED <<config, probe, fs, drive, calls, url, loc>>

\* What ydl.download leaves at the output path: nothing new ("absent": the
\* path keeps what it held), an empty file, or a file with data.
after_download(f, p, res) == IF res = "absent" THEN f ELSE [f EXCEPT ![p] = res]

\* download_video, lines 216-232: the temp file is renamed only when it
\* exists and is not empty.
may_promote(f, temp) == exists(f, temp) /\ f[temp] # "empty"

\* YouTubeDownloader.download_video
a_download ==
  /\ pc = "a_download"
  /\ LET v     == loc.video_info.id
         temp  == get_video_path(v, TRUE)
         final == get_video_path(v, FALSE)
     IN \E res \in {"raise", "absent", "empty", "data"}, renameOk \in BOOLEAN :
          LET f1 == after_download(fs, temp, res)
              h1 == [hist EXCEPT !.downloadStarted = TRUE,
                                 !.invoked = @ \cup {"download"},
                                 !.downloadUrl = read_line(url),
                                 !.dl = IF res = "raise" THEN "raise" ELSE f1[temp],
                                 !.created = IF res \in {"empty", "data"}
                                               THEN @ \cup {temp} ELSE @]
          IN IF res = "raise"
               THEN /\ renameOk
                    /\ AppRaise("DownloadError", "Download failed")
                    /\ hist' = h1
                    /\ UNCHANGED <<fs, loc>>
             ELSE IF ~exists(f1, temp)
               THEN /\ renameOk
                    /\ AppRaise("DownloadError", "Download completed but file not found")
                    /\ fs' = f1
                    /\ hist' = h1
                    /\ UNCHANGED loc
             ELSE IF ~may_promote(f1, temp)
               THEN /\ renameOk
                    /\ AppRaise("DownloadError", "Downloaded file is empty")
                    /\ fs' = f1
                    /\ hist' = h1
                    /\ UNCHANGED loc
             ELSE IF ~renameOk
               THEN /\ AppRaise("DownloadError", "File system error")
                    /\ fs' = f1
                    /\ hist' = h1
                    /\ UNCHANGED loc
             ELSE /\ fs' = rename(f1, temp, final)
                  /\ hist' = [h1 EXCEPT !.promoted = f1[temp],
                                        !.created = @ \cup {final}]
                  /\ loc' = [loc EXCEPT !.video_path = final]
                  /\ pc' = IF UPLOAD_TO_DRIVE THEN "a_upload" ELSE "a_update_local"
                  /\ UNCHANGED <<outcome, err>>
  /\ UNCHANGED <<config, probe, sheet, drive, calls, url>>

\* GoogleDriveService.upload_file
a_upload ==
  /\ pc = "a_upload"
  /\ \E res \in {"ok", "HttpError", "no_id"} :
       IF ~exists(fs, loc.video_path)
         THEN \* validate_file_exists raises before any request is made
              /\ res = "ok"
              /\ AppRaise("GoogleDriveError", "File not found")
              /\ hist' = [hist EXCEPT !.uploadInvoked = TRUE,
                                      !.invoked = @ \cup {"upload"}]
              /\ UNCHANGED <<loc, drive>>
       ELSE IF res = "ok"
         THEN /\ Cardinality(drive) < Len(FileIds)
              /\ loc' = [loc EXCEPT !.file_id = FileIds[Cardinality(drive) + 1]]
              /\ drive' = drive \cup {FileIds[Cardinality(drive) + 1]}
              /\ hist' = [hist EXCEPT !.uploadInvoked = TRUE, !.uploadOk = TRUE,
                                      !.invoked = @ \cup {"upload"}]
              /\ pc' = "a_update"
              /\ UNCHANGED <<outcome, err>>
         ELSE /\ AppRaise("GoogleDriveError", res)
              /\ hist' = [hist EXCEPT !.uploadInvoked = TRUE,
                                      !.invoked = @ \cup {"upload"}]
              /\ UNCHANGED <<loc, drive>>
  /\ UNCHANGED <<config, probe, sheet, fs, calls, url>>

\* update_video_status with the plausible slip of completing Upload Status too
update_video_status_cells_both(sh, row, status, drive_file_id, n) ==
  LET s1 == IF status = "Completed" /\ n >= 1
              THEN update_cell(update_cell(sh, row, ColDownloadStatus, "Completed"),
                               row, ColUploadStatus, "Completed")
              ELSE sh
  IN IF drive_file_id # "" /\ n >= (IF status = "Completed" THEN 2 ELSE 1)
       THEN update_cell(s1, row, ColDriveFileId, drive_file_id) ELSE s1

\* update_video_status, lines 167-178: the cells written in the located row,
\* in the order the code writes them.  n is the number of update_cell calls
\* that complete (a call that fails leaves the later ones undone).
update_video_status_cells(sh, row, status, drive_file_id, n) ==
  LET writes ==
        (IF status = "Completed"
           THEN <<<<ColDownloadStatus, "Completed">>>> ELSE <<>>)
        \o (IF drive_file_id # ""
              THEN <<<<ColDriveFileId, drive_file_id>>>> ELSE <<>>)
      done == IF n < Len(writes) THEN n ELSE Len(writes)
      apply[k \in 0..Len(writes)] ==
        IF k = 0 THEN sh
        ELSE update_cell(apply[k - 1], row, writes[k][1], writes[k][2])
  IN apply[done]

\* the number of update_cell calls update_video_status makes
update_video_status_writes(status, drive_file_id) ==
  (IF status = "Completed" THEN 1 ELSE 0) + (IF drive_file_id # "" THEN 1 ELSE 0)

\* GoogleSheetsService.update_video_status within process_video: the
\* environment lets the lookup fail, or n of the cell updates complete.
UpdateStatus(status, drive_file_id, next) ==
  LET title == loc.video_info.title
      row   == find(sheet, title)
      total == update_video_status_writes(status, drive_file_id)
  IN \E findOk \in BOOLEAN, n \in 0..total :
       LET h1 == [hist EXCEPT !.preUpdate = sheet, !.updRow = row,
                              !.invoked = @ \cup {"sheet"}]
       IN IF ~findOk \/ row = 0
            THEN /\ n = 0
                 /\ AppRaise("GoogleSheetsError", "Failed to update video status")
                 /\ hist' = [h1 EXCEPT !.rowWrite = "fail"]
                 /\ UNCHANGED sheet
            ELSE /\ sheet' = update_video_status_cells(sheet, row, status,
                                                       drive_file_id, n)
                 /\ IF n < total
                      THEN /\ AppRaise("GoogleSheetsError", "Failed to update video status")
                           /\ hist' = [h1 EXCEPT !.rowWrite = "fail"]
                      ELSE /\ hist' = [h1 EXCEPT !.rowWrite = "ok"]
                           /\ next

\* the test of line 79 inverted
delete_after_upload_inverted(keep) == keep

\* process_video, line 79: `if not self.settings.KEEP_FILES`
delete_after_upload(keep) == ~keep

\* process_video, lines 70-81
a_update ==
  /\ pc = "a_update"
  /\ UpdateStatus("Completed", loc.file_id,
                  IF delete_after_upload(KEEP_FILES)
                    THEN pc' = "a_unlink" /\ UNCHANGED <<outcome, err>>
                    ELSE AppReturn)
  /\ UNCHANGED <<config, probe, fs, drive, calls, url, loc>>

\* process_video, lines 79-81: video_path.unlink()
a_unlink ==
  /\ pc = "a_unlink"
  /\ \E ok \in BOOLEAN :
       IF ok /\ exists(fs, loc.video_path)
         THEN /\ fs' = unlink(fs, loc.video_path)
              /\ hist' = [hist EXCEPT !.unlinked = @ \cup {loc.video_path}]
              /\ AppReturn
         ELSE /\ AppRaise("OSError", "unlink failed")
              /\ hist' = [hist EXCEPT !.unlinked = @ \cup {loc.video_path},
                                      !.unlinkFailed = TRUE,
                                      !.cleanupFailed = TRUE]
              /\ UNCHANGED fs
  /\ UNCHANGED <<config, probe, sheet, drive, calls, url, loc>>

\* process_video, lines 82-90: UPLOAD_TO_DRIVE is false
a_update_local ==
  /\ pc = "a_update_local"
  /\ UpdateStatus("Completed Locally", str_path(loc.video_path), AppReturn)
  /\ UNCHANGED <<config, probe, fs, drive, calls, url, loc>>

AppNext ==
  \/ a_validate
  \/ a_info
  \/ a_add
  \/ a_download
  \/ a_upload
  \/ a_update
  \/ a_unlink
  \/ a_update_local


----------------------------------------------------------------------------
(* legacy: YouTubeManager.process_video.  Its except clause re-raises the  *)
(* exception as it is; its finally clause runs once video_path is bound.   *)

LegacyRaise(kind, msg) ==
  /\ outcome' = "Error"
  /\ err' = Err(kind, "", msg)

\* utils.validators.validate_youtube_url
l_validate ==
  /\ pc = "l_validate"
  /\ \E r \in {legacy_validate_youtube_url(read_line(url))} :
       IF r.ok
         THEN /\ loc' = [loc EXCEPT !.video_id = IdToken(r.value)]
              /\ pc' = "l_sheet"
              /\ UNCHANGED <<outcome, err>>
         ELSE /\ LegacyRaise(r.kind,
                             IF read_line(url) = <<>> THEN "URL cannot be empty"
                             ELSE "Invalid YouTube URL format")
              /\ pc' = "returned"
              /\ UNCHANGED loc
  /\ UNCHANGED <<config, probe, sheet, fs, drive, calls, url, hist>>

\* get_or_create_sheet, lines 155-167: the sheet after header provisioning;
\* inserted says whether insert_row completed.
get_or_create_sheet(sh, inserted) ==
  LET current_headers == row_values(sh, 1)
  IN IF current_headers = <<>>
       THEN IF inserted THEN <<LEGACY_HEADERS>> \o sh ELSE sh
     ELSE IF current_headers # LEGACY_HEADERS
       THEN IF inserted THEN <<LEGACY_HEADERS>> ELSE <<>>
     ELSE sh

\* YouTubeManager.get_or_create_sheet
l_sheet ==
  /\ pc = "l_sheet"
  /\ \E res \in {"ok", "open_failed", "insert_failed"} :
       IF res = "ok"
         THEN /\ sheet' = get_or_create_sheet(sheet, TRUE)
              /\ pc' = "l_data"
              /\ UNCHANGED <<outcome, err>>
       ELSE IF res = "open_failed"
         THEN /\ LegacyRaise("GoogleSheetsError", "Spreadsheet access error")
              /\ pc' = "returned"
              /\ UNCHANGED sheet
       ELSE /\ row_values(sheet, 1) # LEGACY_HEADERS
            /\ sheet' = get_or_create_sheet(sheet, FALSE)
            /\ LegacyRaise("GoogleSheetsError", "Worksheet error")
            /\ pc' = "returned"
  /\ hist' = [hist EXCEPT !.invoked = @ \cup {"sheet"}]
  /\ UNCHANGED <<config, probe, fs, drive, calls, url, loc>>

\* YouTubeManager.get_video_data
l_data ==
  /\ pc = "l_data"
  /\ \E res \in {"info", "DownloadError"}, kind \in Kinds(loc.video_id) :
       IF res = "info"
         THEN /\ loc' = [loc EXCEPT !.video_info = Meta(loc.video_id, kind),
                                    !.video_data = get_video_data_row(Meta(loc.video_id, kind))]
              /\ hist' = [hist EXCEPT !.reported = Meta(loc.video_id, kind),
                                      !.invoked = @ \cup {"fetch"},
                                      !.fetchUrl = watch_url(loc.video_id)]
              /\ pc' = "l_download"
              /\ UNCHANGED <<outcome, err>>
         ELSE /\ LegacyRaise("YouTubeDataError", "Download error")
              /\ pc' = "returned"
              /\ hist' = [hist EXCEPT !.invoked = @ \cup {"fetch"},
                                      !.fetchUrl = watch_url(loc.video_id)]
              /\ UNCHANGED loc
  /\ UNCHANGED <<config, probe, sheet, fs, drive, calls, url>>

\* download_video, lines 253-259: the downloaded file is deleted inside
\* download_video when KEEP_FILE is false (a failure is only logged).
ym_keep_file_cleanup(f, path, keep, unlinkOk) ==
  IF ~keep /\ exists(f, path) /\ unlinkOk THEN unlink(f, path) ELSE f

\* YouTubeManager.download_video
l_download ==
  /\ pc = "l_download"
  /\ LET v      == loc.video_info.id
         temp   == <<"Videos_id", v>>
         final  == <<"Videos_title", v>>
         backup == <<"Videos_backup", v>>
     IN \E res \in {"raise", "absent", "empty", "data"},
           renameOk \in BOOLEAN, copyOk \in BOOLEAN, unlinkOk \in BOOLEAN :
          LET f1 == after_download(fs, temp, res)
              h1 == [hist EXCEPT !.downloadStarted = TRUE,
                                 !.invoked = @ \cup {"download"},
                                 !.downloadUrl = watch_url(loc.video_id),
                                 !.dl = IF res = "raise" THEN "raise" ELSE f1[temp],
                                 !.created = IF res \in {"empty", "data"}
                                               THEN @ \cup {temp} ELSE @]
              path == IF renameOk THEN final ELSE temp
              f2 == IF renameOk THEN rename(f1, temp, final) ELSE f1
              f3 == IF copyOk THEN copy2(f2, path, backup) ELSE f2
              f4 == ym_keep_file_cleanup(f3, path, KEEP_FILES, unlinkOk)
          IN IF res = "raise" \/ ~exists(f1, temp)
               THEN /\ renameOk /\ copyOk /\ unlinkOk
                    /\ LegacyRaise("YouTubeDataError", "Video download failed")
                    /\ pc' = "returned"
                    /\ fs' = IF res = "raise" THEN fs ELSE f1
                    /\ hist' = h1
                    /\ UNCHANGED loc
               ELSE /\ (KEEP_FILES => unlinkOk)
                    /\ fs' = f4
                    /\ hist' = [h1 EXCEPT
                         !.promoted = IF renameOk THEN f1[temp] ELSE "none",
                         !.created = @ \cup (IF renameOk THEN {final} ELSE {})
                                       \cup (IF copyOk THEN {backup} ELSE {}),
                         !.unlinked = IF KEEP_FILES THEN @ ELSE @ \cup {path},
                         !.unlinkFailed = ~KEEP_FILES /\ ~unlinkOk]
                    /\ loc' = [loc EXCEPT !.video_path = path]
                    /\ pc' = "l_upload"
                    /\ UNCHANGED <<outcome, err>>
  /\ UNCHANGED <<config, probe, sheet, drive, calls, url>>

\* YouTubeManager.upload_to_drive
l_upload ==
  /\ pc = "l_upload"
  /\ \E res \in {"ok", "HttpError"} :
       IF ~exists(fs, loc.video_path)
         THEN \* validate_file_exists raises before any request is made
              /\ res = "ok"
              /\ LegacyRaise("GoogleDriveError", "File validation failed")
              /\ hist' = [hist EXCEPT !.uploadInvoked = TRUE,
                                      !.invoked = @ \cup {"upload"}]
              /\ pc' = "l_finally"
              /\ UNCHANGED <<loc, drive>>
       ELSE IF res = "ok"
         THEN /\ Cardinality(drive) < Len(FileIds)
              /\ loc' = [loc EXCEPT !.file_id = FileIds[Cardinality(drive) + 1]]
              /\ drive' = drive \cup {FileIds[Cardinality(drive) + 1]}
              /\ hist' = [hist EXCEPT !.uploadInvoked = TRUE, !.uploadOk = TRUE,
                                      !.invoked = @ \cup {"upload"}]
              /\ pc' = "l_update"
              /\ UNCHANGED <<outcome, err>>
         ELSE /\ LegacyRaise("GoogleDriveError", "Upload failed")
              /\ hist' = [hist EXCEPT !.uploadInvoked = TRUE,
                                      !.invoked = @ \cup {"upload"}]
              /\ pc' = "l_finally"
              /\ UNCHANGED <<loc, drive>>
  /\ UNCHANGED <<config, probe, sheet, fs, calls, url>>

\* update_spreadsheet, lines 317-326: the duplicate test on column G
is_duplicate(sh, video_data) ==
  video_data[LegacyColVideoId] \in col_values(sh, LegacyColVideoId)

\* update_spreadsheet, lines 317-318 and 329: the row that is appended
update_spreadsheet_row(video_data, drive_file_id) ==
  [video_data EXCEPT ![LegacyColDriveFileId] = drive_file_id,
                     ![LegacyColDownloadStatus] = "Completed"]

\* YouTubeManager.update_spreadsheet
l_update ==
  /\ pc = "l_update"
  /\ \E ok \in BOOLEAN :
       IF ~ok
         THEN /\ LegacyRaise("GoogleSheetsError", "Spreadsheet update failed")
              /\ hist' = [hist EXCEPT !.rowWrite = "fail",
                                      !.invoked = @ \cup {"sheet"}]
              /\ UNCHANGED sheet
       ELSE IF is_duplicate(sheet, loc.video_data)
         THEN /\ outcome' = "AlreadyExists"
              /\ err' = NoErr
              /\ hist' = [hist EXCEPT !.rowWrite = "dup",
                                      !.invoked = @ \cup {"sheet"}]
              /\ UNCHANGED sheet
       ELSE /\ sheet' = append_row(sheet,
                          update_spreadsheet_row(loc.video_data, loc.file_id))
            /\ outcome' = "Processed"
            /\ err' = NoErr
            /\ hist' = [hist EXCEPT !.rowWrite = "ok",
                                    !.invoked = @ \cup {"sheet"}]
  /\ pc' = "l_finally"
  /\ UNCHANGED <<config, probe, fs, drive, calls, url, loc>>

\* process_video, lines 379-386: the finally clause
l_finally ==
  /\ pc = "l_finally"
  /\ \E ok \in BOOLEAN :
       IF exists(fs, loc.video_path)
         THEN /\ fs' = IF ok THEN unlink(fs, loc.video_path) ELSE fs
              /\ hist' = [hist EXCEPT !.unlinked = @ \cup {loc.video_path},
                                      !.unlinkFailed = @ \/ ~ok,
                                      !.cleanupFailed = ~ok]
         ELSE /\ ok
              /\ UNCHANGED <<fs, hist>>
  /\ pc' = "returned"
  /\ UNCHANGED <<config, probe, sheet, drive, calls, url, loc, outcome, err>>

LegacyNext ==
  \/ l_validate
  \/ l_sheet
  \/ l_data
  \/ l_download
  \/ l_upload
  \/ l_update
  \/ l_finally

Next ==
  \/ cli_quit
  \/ cli_empty
  \/ cli_process
  \/ cli_continue
  \/ AppNext
  \/ LegacyNext

Spec == Init /\ [][Next]_vars

----------------------------------------------------------------------------
(* The validators and the sanitizers on their own: one call of the         *)
(* function of the running program on an input drawn from a bounded set.   *)

\* the rest of the program is idle while a function is called on its own
ProbeInit ==
  /\ impl \in {"app", "legacy"}
  /\ KEEP_FILES = TRUE
  /\ UPLOAD_TO_DRIVE = TRUE
  /\ sheet = <<>>
  /\ fs = [p \in FsPaths |-> "absent"]
  /\ drive = {}
  /\ pc = "probe"
  /\ calls = 0
  /\ url = ""
  /\ loc = InitLoc
  /\ outcome = "none"
  /\ err = NoErr
  /\ hist = InitHist(<<>>)

\* --- inputs of the validators ---

IdSample == <<"d","Q","w","4","w","9","W","g","X","c","Q">>
IdWords == <<"w","a","t","c","h","_","e","m","b","e","d">>
IdDigits == <<"s","h","o","r","t","s","-","1","2","3","4">>
IdOther == Rep("B", IdLen)

\* the ids carried by the URL inputs
UrlIds == {IdSample, IdWords, IdDigits}

\* the ids typed directly: the above and every id made of two runs of
\* characters of the class
ClassSamples == {"A", "z", "0", "_", "-"}
DirectIds ==
  UrlIds \cup {Rep(c, k) \o Rep(d, IdLen - k) :
                 c \in ClassSamples, d \in ClassSamples, k \in 0..IdLen}

Hosts == YOUTUBE_HOSTS \cup {HostShort, HostOther}
Schemes == {Https, <<>>}

UrlShapes ==
  {"watch", "watch_second", "watch_newline", "watch_bare", "watch_blank",
   "shorts", "embed", "v", "shorts_tail", "shorts_two", "embed_tail",
   "pre_shorts", "pre_embed", "pre_v", "shorts_query", "root", "nopath",
   "segment", "segment_query", "segment_tail", "playlist"}
DirectShapes ==
  {"direct", "direct_spaces", "direct_newline", "ten", "twelve", "badchar",
   "empty", "blank"}

\* path and query of a URL of the given shape carrying the id
ShapeText(shape, id) ==
  LET X == <<"/", "x">>
      Q == <<"?", "t", "=", "1">>
  IN CASE shape = "watch"         -> PathWatch \o <<"?", "v", "=">> \o id
       [] shape = "watch_second"  -> PathWatch \o Q \o <<"&", "v", "=">> \o id
       [] shape = "watch_newline" -> PathWatch \o <<"?", "v", "=">> \o id \o <<"%", "0", "A">>
       [] shape = "watch_bare"    -> PathWatch
       [] shape = "watch_blank"   -> PathWatch \o <<"?", "v", "=">>
       [] shape = "shorts"        -> MarkShorts \o id
       [] shape = "embed"         -> MarkEmbed \o id
       [] shape = "v"             -> MarkV \o id
       [] shape = "shorts_tail"   -> MarkShorts \o id \o X
       [] shape = "shorts_two"    -> MarkShorts \o id \o <<"/">> \o IdOther
       [] shape = "embed_tail"    -> MarkEmbed \o id \o X
       [] shape = "pre_shorts"    -> X \o MarkShorts \o id
       [] shape = "pre_embed"     -> X \o MarkEmbed \o id
       [] shape = "pre_v"         -> X \o MarkV \o id
       [] shape = "shorts_query"  -> MarkShorts \o id \o Q
       [] shape = "root"          -> <<"/">>
       [] shape = "nopath"        -> <<>>
       [] shape = "segment"       -> <<"/">> \o id
       [] shape = "segment_query" -> <<"/">> \o id \o Q
       [] shape = "segment_tail"  -> <<"/">> \o id \o X
       [] shape = "playlist"      -> <<"/","p","l","a","y","l","i","s","t","?","l","i","s","t","=">> \o id
       [] shape = "direct"        -> id
       [] shape = "direct_spaces" -> <<" ">> \o id \o <<" ">>
       [] shape = "direct_newline" -> id \o <<LF>>
       [] shape = "ten"           -> Upto(id, IdLen - 1)
       [] shape = "twelve"        -> id \o <<"a">>
       [] shape = "badchar"       -> Upto(id, IdLen - 1) \o <<"!">>
       [] shape = "empty"         -> <<>>
       [] OTHER                   -> <<" ">>

ExtractSources ==
  [scheme : Schemes, host : Hosts, shape : UrlShapes, id : UrlIds]
  \cup [scheme : {<<>>}, host : {<<>>}, shape : DirectShapes, id : DirectIds]

\* the input line a source stands for
InputText(src) == src.scheme \o src.host \o ShapeText(src.shape, src.id)

ExtractInit ==
  /\ ProbeInit
  /\ probe \in {ProbeOf("extract", src, InputText(src)) : src \in ExtractSources}

\* validate_youtube_url of the running program, called on the input
call_validate_youtube_url ==
  /\ pc = "probe"
  /\ probe.fn = "extract"
  /\ ~probe.done
  /\ \E r \in {IF impl = "app" THEN validate_youtube_url(probe.arg)
                ELSE legacy_validate_youtube_url(probe.arg)} :
       probe' = [probe EXCEPT !.done = TRUE, !.ok = r.ok, !.value = r.value,
                              !.kind = r.kind]
  /\ UNCHANGED <<config, sheet, fs, drive, pc, calls, url, loc, outcome, err, hist>>

ExtractNext == call_validate_youtube_url

ExtractSpec == ExtractInit /\ [][ExtractNext]_vars

\* --- inputs of the sanitizers ---

\* a title: a run of one character, a middle piece, a run of another
HeadChars == {"a", "_", " ", ".", "/", "U+00E9"}
HeadLengths == {0, 1, 195, 196, 197, 198, 199, 200, 201}
Middles == {<<>>, <<".">>, <<"_", ".">>, <<"\t">>}
TailChars == {"b", ".", " ", "U+4E2D"}
TailLengths == {0, 1, 4, 5, 250}

SanitizeSources ==
  [head : HeadChars, n : HeadLengths, mid : Middles, tail : TailChars,
   m : TailLengths]

TitleText(src) == Rep(src.head, src.n) \o src.mid \o Rep(src.tail, src.m)

SanitizeInit ==
  /\ ProbeInit
  /\ probe \in {ProbeOf("sanitize", src, TitleText(src)) : src \in SanitizeSources}

\* sanitize_filename of the running program, called on the title and then on
\* its own result
call_sanitize_filename ==
  /\ pc = "probe"
  /\ probe.fn = "sanitize"
  /\ ~probe.done
  /\ \E once \in {IF impl = "app" THEN sanitize_filename(probe.arg)
                   ELSE legacy_sanitize_filename(probe.arg)} :
       \E twice \in {IF impl = "app" THEN sanitize_filename(once)
                      ELSE legacy_sanitize_filename(once)} :
         probe' = [probe EXCEPT !.done = TRUE, !.ok = TRUE, !.value = once,
                                !.again = twice]
  /\ UNCHANGED <<config, sheet, fs, drive, pc, calls, url, loc, outcome, err, hist>>

SanitizeNext == call_sanitize_filename

SanitizeSpec == SanitizeInit /\ [][SanitizeNext]_vars


----------------------------------------------------------------------------
(* The upload loop on its own: upload_file (app) is called with a progress *)
(* callback, upload_to_drive (legacy) reports to its log; the transport    *)
(* chooses the status of every chunk.                                      *)

\* Progress fractions are counted in thousandths: 250 is 0.25.
Scale == 1000

\* what status.progress() may be, chunk after chunk
ProgressValues == {0, 5, 250, 255, 500, Scale}

\* the chunks one upload may take
MaxChunks == 4

\* int(status.progress() * 100)
percent(p) == (p * 100) \div Scale

\* a loop that reports every status
progress_increased_always(current_progress, last_progress) == TRUE

\* `if current_progress > last_progress`
progress_increased(current_progress, last_progress) == current_progress > last_progress

\* the loop's state: the statuses received, last_progress, the values given
\* to progress_callback (legacy: to the log, as fractions) and the percents
\* printed
UploadProbe(last) ==
  [fn |-> "upload", src |-> <<>>, arg |-> <<>>, done |-> FALSE, ok |-> FALSE,
   value |-> <<>>, kind |-> "", again |-> <<>>, last_progress |-> last]

UploadInit ==
  /\ ProbeInit
  /\ probe = UploadProbe(IF impl = "app" THEN -1 ELSE 0)

\* status, response = request.next_chunk() with a status and no response
\* yet: google_drive.upload_file lines 114-126, upload_to_drive lines 295-300
next_chunk ==
  /\ pc = "probe"
  /\ probe.fn = "upload"
  /\ ~probe.done
  /\ Len(probe.arg) < MaxChunks
  /\ \E p \in ProgressValues :
       LET current_progress == percent(p)
           increased == progress_increased(current_progress, probe.last_progress)
           first == IF impl = "app" /\ probe.last_progress = -1 THEN <<0>> ELSE <<>>
       IN probe' = [probe EXCEPT
            !.arg = Append(@, p),
            !.again = @ \o first \o (IF increased THEN <<current_progress>> ELSE <<>>),
            !.value = IF ~increased THEN @
                      ELSE IF impl = "app" THEN Append(@, p)
                      ELSE Append(@, (current_progress * Scale) \div 100),
            !.last_progress = IF increased THEN current_progress ELSE @]
  /\ UNCHANGED <<config, sheet, fs, drive, pc, calls, url, loc, outcome, err, hist>>

\* next_chunk() returns the response: the loop ends (lines 133-145)
upload_response ==
  /\ pc = "probe"
  /\ probe.fn = "upload"
  /\ ~probe.done
  /\ probe' = [probe EXCEPT
       !.done = TRUE, !.ok = TRUE,
       !.again = IF impl = "app" /\ probe.last_progress < 100
                   THEN Append(@, 100) ELSE @]
  /\ UNCHANGED <<config, sheet, fs, drive, pc, calls, url, loc, outcome, err, hist>>

\* next_chunk() raises: the upload ends in GoogleDriveError
chunk_error ==
  /\ pc = "probe"
  /\ probe.fn = "upload"
  /\ ~probe.done
  /\ probe' = [probe EXCEPT !.done = TRUE, !.ok = FALSE, !.kind = "GoogleDriveError"]
  /\ UNCHANGED <<config, sheet, fs, drive, pc, calls, url, loc, outcome, err, hist>>

UploadNext ==
  \/ next_chunk
  \/ upload_response
  \/ chunk_error

UploadSpec == UploadInit /\ [][UploadNext]_vars

----------------------------------------------------------------------------
(* Header provisioning on its own: the program opens a sheet that holds    *)
(* anything a user may have left in it.                                    *)

\* GoogleSheetsService._get_or_create_worksheet, lines 80-88: the sheet after
\* header provisioning; appended says whether append_row completed.
\* append_row puts the row after the last row that holds data.
get_or_create_worksheet(sh, appended) ==
  LET headers == row_values(sh, 1)
  IN IF headers = <<>>
       THEN IF appended THEN append_row(sh, HEADERS) ELSE sh
     ELSE IF headers # HEADERS
       THEN IF appended THEN append_row(<<>>, HEADERS) ELSE <<>>
     ELSE sh

\* GoogleSheetsService._setup_service, called when VideoProcessor is built;
\* a failure ends the program (main, lines 70-72)
a_setup ==
  /\ pc = "a_setup"
  /\ \E res \in {"ok", "open_failed", "append_failed"} :
       IF res = "ok"
         THEN /\ sheet' = get_or_create_worksheet(sheet, TRUE)
              /\ pc' = "prompt"
              /\ UNCHANGED <<outcome, err>>
       ELSE IF res = "open_failed"
         THEN /\ outcome' = "Error"
              /\ err' = Err("GoogleSheetsError", "", "Failed to initialize Sheets service")
              /\ pc' = "exited"
              /\ UNCHANGED sheet
       ELSE /\ row_values(sheet, 1) # HEADERS
            /\ sheet' = get_or_create_worksheet(sheet, FALSE)
            /\ outcome' = "Error"
            /\ err' = Err("GoogleSheetsError", "", "Failed to initialize Sheets service")
            /\ pc' = "exited"
  /\ hist' = [hist EXCEPT !.invoked = @ \cup {"sheet"}]
  /\ UNCHANGED <<config, probe, fs, drive, calls, url, loc>>

\* the first rows and the data rows a sheet may hold
FirstRows == {<<>>, HEADERS, LEGACY_HEADERS, <<"Title">>}
DataRows == {add_video_row(Meta("idA", "plain")), get_video_data_row(Meta("idB", "plain"))}
MaxDataRows == 2
DataSeqs == UNION {[1..n -> DataRows] : n \in 0..MaxDataRows}

\* the sheets: a first row followed by data rows (no sheet ends in an empty
\* row: an empty row after the last data is no row at all)
ProvisionSheets ==
  {<<>>} \cup ({<<first>> \o rows : first \in FirstRows, rows \in DataSeqs}
                \ {<<<<>>>>})

ProvisionInit ==
  /\ impl \in {"app", "legacy"}
  /\ KEEP_FILES = TRUE
  /\ UPLOAD_TO_DRIVE = TRUE
  /\ sheet \in ProvisionSheets
  /\ fs = [p \in FsPaths |-> "absent"]
  /\ drive = {}
  /\ pc = (IF impl = "app" THEN "a_setup" ELSE "l_sheet")
  /\ calls = 0
  /\ url = ""
  /\ loc = InitLoc
  /\ outcome = "none"
  /\ err = NoErr
  /\ hist = InitHist(sheet)
  /\ probe = NoProbe

ProvisionNext ==
  \/ a_setup
  \/ l_sheet

ProvisionSpec == ProvisionInit /\ [][ProvisionNext]_vars

----------------------------------------------------------------------------
(* Vocabulary of the properties.                                           *)

\* The column a program keys a video's row by: the legacy sheet has a
\* Video ID column, the app sheet identifies a video by its title only.
KeyOf(row) == IF impl = "legacy" THEN row[LegacyColVideoId] ELSE row[1]
KeyFor(v) == IF impl = "legacy" THEN v ELSE Meta(v, "plain").title

\* the data rows of sh that belong to video v
RowsFor(sh, v) == {r \in 2..Len(sh) : KeyOf(sh[r]) = KeyFor(v)}

\* the video an input line names, "" when it names none
InputVideo(u) ==
  CASE u \in VideoIds -> u
    [] u \in {"youtu.be/idA", "watch?v=idA&t=1"} -> "idA"
    [] OTHER -> ""
InCall == InputVideo(url) \in VideoIds /\ pc \notin {"prompt", "exited"}
Returned == pc = "returned"
DupAtStart == InCall /\ RowsFor(hist.sheet0, InputVideo(url)) # {}
Unsupported(info) == info.is_live \/ info.entries \/ info.age_limit > 0
UnsupportedMsgs == {"URL appears to be a playlist", "Live streams are not supported",
                    "Age-restricted videos are not supported"}
\* the failure of a download: DownloadError (app, wrapped by ProcessingError)
\* or YouTubeDataError (legacy)
IsDownloadFailed ==
  /\ outcome = "Error"
  /\ \/ err.kind = "ProcessingError" /\ err.cause = "DownloadError"
     \/ err.kind = "YouTubeDataError"
\* the directories that hold a download under its final name
FinalDirs == {"processed", "Videos_title"}
\* the paths of the media file itself, temp or final (not the legacy backup)
MediaDirs == {"temp", "processed", "Videos_id", "Videos_title"}

\* the exception classes the two programs define (app/utils/exceptions.py,
\* utils/exceptions.py)
Taxonomy ==
  IF impl = "app"
    THEN {"YouTubeManagerError", "ValidationError", "ConfigurationError",
          "DownloadError", "ProcessingError", "UploadError", "GoogleAPIError",
          "GoogleSheetsError", "GoogleDriveError", "CleanupError"}
    ELSE {"YouTubeManagerError", "YouTubeDataError", "GoogleSheetsError",
          "GoogleDriveError", "ValidationError", "ConfigurationError"}

----------------------------------------------------------------------------
(* The claims.                                                             *)

\* C1: when the sheet already holds a row for the video as process_video is
\* called, the call does not end Processed (it returns AlreadyExists unless a
\* collaborator fails), the sheet gets no second row for the video, and the
\* upload is never invoked during the call.
C1_DuplicateIsRefused ==
  DupAtStart =>
    /\ Cardinality(RowsFor(sheet, InputVideo(url)))
         = Cardinality(RowsFor(hist.sheet0, InputVideo(url)))
    /\ ~hist.uploadInvoked
    /\ Returned => outcome \in {"AlreadyExists", "Error"}

\* C2: the sheet never holds two data rows with the same title/identifier.
C2_NoDuplicateRows ==
  \A r1, r2 \in 2..Len(sheet) : KeyOf(sheet[r1]) = KeyOf(sheet[r2]) => r1 = r2

\* C3: whenever the download is about to start or has been started (and the
\* row has not been finalized since), the sheet holds a row of the video in
\* Pending download status.
HasPendingRow(sh, info) ==
  \E r \in 2..Len(sh) : sh[r][1] = info.title /\ "Pending" \in {sh[r][ColDownloadStatus], sh[r][LegacyColDownloadStatus]}
C3_PendingRowBeforeDownload ==
  (pc \in {"a_download", "l_download"} \/ (hist.downloadStarted /\ hist.rowWrite = "none"))
    => HasPendingRow(sheet, loc.video_info)

\* C4: when the metadata fetch reports a live stream, a playlist or an
\* age-restricted video, the call creates no local file and appends no row,
\* and it ends in the failure that names the unsupported content.
C4_UnsupportedContentRejected ==
  (InCall /\ Unsupported(hist.reported)) =>
    /\ hist.created = {}
    /\ Cardinality(RowsFor(sheet, InputVideo(url)))
         = Cardinality(RowsFor(hist.sheet0, InputVideo(url)))
    /\ Returned => (outcome = "Error" /\ err.msg \in UnsupportedMsgs)

\* C5: when the download returns normally but leaves an empty or no file,
\* nothing is renamed to the final location and the call ends in a download
\* failure; no file of a final location is empty.
C5_EmptyDownloadNotPromoted ==
  /\ hist.dl \in {"empty", "absent"} =>
       /\ hist.promoted = "none"
       /\ Returned => IsDownloadFailed
  /\ \A p \in FsPaths : p[1] \in FinalDirs => fs[p] # "empty"

\* C6 as stated: metadata fetch, download (non-zero size) and upload succeeded
\* and keep-files is false, so the call ends Processed with the local file gone.
C6_HappyPathPremises ==
  /\ Returned
  /\ loc.video_info # NoInfo
  /\ loc.video_path # NoPath
  /\ hist.dl = "data"
  /\ hist.uploadOk
  /\ ~KEEP_FILES
C6_Original ==
  C6_HappyPathPremises => (outcome = "Processed" /\ ~exists(fs, loc.video_path))

\* C6, amended: when moreover the row update succeeded and the file deletion
\* that ends the call did not fail, the call ends Processed and the local
\* file is gone.
C6_ProcessedAndDeleted ==
  (C6_HappyPathPremises /\ hist.rowWrite = "ok" /\ ~hist.cleanupFailed)
    => (outcome = "Processed" /\ ~exists(fs, loc.video_path))
C6_Witness ==
  /\ C6_HappyPathPremises /\ hist.rowWrite = "ok" /\ ~hist.cleanupFailed
  /\ loc.video_path \in hist.unlinked
  /\ outcome = "Processed" /\ ~exists(fs, loc.video_path)

\* C7: when keep-files is true and the call ends Processed, the media file
\* the call downloaded is still on disk.
C7_KeptFileStillPresent ==
  (Returned /\ KEEP_FILES /\ outcome = "Processed") => exists(fs, loc.video_path)

\* C8: after a successful upload, a completed update_video_status has left
\* every row but the located one as it was, and in the located row (a row
\* that carries the video's title) has written Download Status = Completed
\* and Drive File ID = the id the upload returned and nothing else: Upload
\* Status and every other cell are unchanged.  For the row the call's own
\* add_video appended, that is a change of exactly these two cells, and
\* Upload Status is still Pending.
C8_FinalizeCase ==
  impl = "app" /\ hist.uploadOk /\ hist.rowWrite = "ok"
C9_CleanupAlwaysAttempted ==
  (Returned /\ ~KEEP_FILES) =>
    \A p \in hist.created :
      (p[1] \in MediaDirs /\ exists(fs, p)) => p \in hist.unlinked

\* C10: when download, upload and the row update succeeded and only a file
\* deletion failed, the call still ends Processed.
C10_CleanupFailureNotEscalated ==
  (Returned /\ hist.uploadOk /\ hist.rowWrite = "ok" /\ hist.unlinkFailed)
    => outcome = "Processed"

\* C11: a call whose input carries no valid identifier ends in the
\* ValidationError the validator raised, as that kind and not wrapped in
\* another, and has called no collaborator (fetch, sheet, download, upload).
C11_InvalidIdentifierPropagates ==
  (Returned /\ InputVideo(url) \notin VideoIds) =>
    /\ outcome = "Error"
    /\ err.kind = "ValidationError"
    /\ hist.invoked = {}
    /\ sheet = hist.sheet0

C13_NoRowRemoved ==
  \A r \in 2..Len(hist.sheet0) :
    \E q \in 1..Len(sheet) : sheet[q][1] = hist.sheet0[r][1]

\* what the claims about the validators speak of
Extracted == probe.fn = "extract" /\ probe.done
Sanitized == probe.fn = "sanitize" /\ probe.done
IsVideoId(s) == Len(s) = IdLen /\ \A i \in 1..IdLen : s[i] \in IdClass
RecognizedHosts == YOUTUBE_HOSTS \cup {HostShort}
Markers == {MarkShorts, MarkEmbed, MarkV}
\* the path segment that immediately follows the marker in the path
SegmentAfter(path, marker) ==
  Split(From(path, IndexOf(path, marker) - 1 + Len(marker)), <<"/">>)[1]

\* C14: called on a string of exactly 11 characters of [A-Za-z0-9_-], the
\* validator returns that string unchanged.
C14_DirectIdReturned ==
  (Extracted /\ IsVideoId(probe.arg)) => (probe.ok /\ probe.value = probe.arg)
C14_Witness ==
  /\ Extracted /\ probe.arg = IdSample
  /\ probe.ok /\ probe.value = IdSample

\* C15: for a valid id, the validator returns that id for each of the URLs
\* https://<host>/watch?v=<id>, /shorts/<id> and /embed/<id> on
\* www.youtube.com, youtube.com and m.youtube.com, and for
\* https://youtu.be/<id>.
C15_Case ==
  /\ Extracted
  /\ probe.src.scheme = Https
  /\ IsVideoId(probe.src.id)
  /\ \/ probe.src.host \in YOUTUBE_HOSTS /\ probe.src.shape \in {"watch", "shorts", "embed"}
     \/ probe.src.host = HostShort /\ probe.src.shape = "segment"
C15_FourShapesSameId ==
  C15_Case => (probe.ok /\ probe.value = probe.src.id)
C15_Witness ==
  /\ C15_Case /\ probe.src.host = HostMobile /\ probe.src.shape = "embed"
  /\ probe.ok /\ probe.value = probe.src.id

\* C16: the validator raises ValidationError, and returns nothing, for the
\* empty string, for a URL of a recognized host that carries no identifier
\* (no path, /, /watch without a v value, /playlist) and for a URL of any
\* other host.
C16_Case ==
  /\ Extracted
  /\ \/ probe.arg = <<>>
     \/ /\ probe.src.scheme = Https
        /\ probe.src.host \in RecognizedHosts
        /\ probe.src.shape \in {"root", "nopath", "watch_bare", "watch_blank", "playlist"}
     \/ /\ probe.src.scheme = Https
        /\ probe.src.host \notin RecognizedHosts
        /\ probe.src.shape \in UrlShapes
C17_ReturnedValueIsId ==
  (Extracted /\ probe.ok) => IsVideoId(probe.value)

\* C18: for a URL of www/apex/mobile youtube.com whose path contains
\* /shorts/, /embed/ or /v/ anywhere, the identifier is the one path segment
\* that follows the marker: the validator returns it when it is a valid id
\* and raises when it is not, whatever else the path holds.
C18_SegmentAfterMarker ==
  Extracted =>
    LET parsed == urlparse(Strip(probe.arg, Whitespace))
    IN \A marker \in Markers :
         (parsed.netloc \in YOUTUBE_HOSTS /\ Contains(parsed.path, marker)) =>
           IF IsVideoId(SegmentAfter(parsed.path, marker))
             THEN probe.ok /\ probe.value = SegmentAfter(parsed.path, marker)
             ELSE ~probe.ok

\* C19: sanitizing the result of the sanitizer again changes nothing.
C19_SanitizeIdempotent ==
  Sanitized => probe.again = probe.value

\* C20: the result of the sanitizer is at most 203 characters long.
C20_SanitizeLengthBound ==
  Sanitized => Len(probe.value) <= MAX_LENGTH + 3

\* what the claims about the sanitizers speak of: the ASCII control
\* characters of the inputs, and the printable ASCII range 0x20..0x7E
ControlChars == {"\t", LF, "\r"}
IsPrintableAscii(c) == c \notin NonAscii /\ c \notin ControlChars
HasRun(s, c) == \E i \in 1..(Len(s) - 1) : s[i] = c /\ s[i + 1] = c

\* C21: the result of the sanitizer holds none of the characters
\* < > : " / \ | ? * and no two consecutive underscores.
C21_NoForbiddenNoUnderscoreRun ==
  Sanitized =>
    /\ \A i \in 1..Len(probe.value) : probe.value[i] \notin FORBIDDEN
    /\ ~HasRun(probe.value, "_")
C21_Witness ==
  /\ Sanitized
  /\ probe.arg = <<"/", "_", ".", "b">>
  /\ probe.value = <<"_", ".", "b">>

\* C22: every character of the sanitizer's result is printable ASCII: no
\* character above 0x7E and no ASCII control character.
C22_OutputPrintableAscii ==
  Sanitized => \A i \in 1..Len(probe.value) : IsPrintableAscii(probe.value[i])

\* C23: the URL handed to the fetcher, for the metadata and for the
\* download, is the canonical watch URL built from the extracted identifier,
\* whatever the form of the input line.
C23_FetcherGetsCanonicalUrl ==
  /\ "fetch" \in hist.invoked => hist.fetchUrl = watch_url(loc.video_id)
  /\ "download" \in hist.invoked => hist.downloadUrl = watch_url(loc.video_id)

\* C24: at the prompt, a line that is q in either case ends the loop and an
\* empty line starts no call and leaves the loop at the prompt; a call that
\* has returned, with an error or not, is followed by the prompt; and a call
\* starts only at the prompt, which is entered only when the previous call
\* has returned.
C24_Step ==
  /\ pc = "prompt" =>
       /\ is_quit(read_line(url')) => pc' = "exited"
       /\ read_line(url') = <<>> => (pc' = "prompt" /\ calls' = calls)
  /\ pc = "returned" => pc' = "prompt"
  /\ calls' # calls => pc = "prompt"
  /\ (pc' = "prompt" /\ pc # "prompt") => pc = "returned"
C24_CliLoop == [][C24_Step]_vars

\* what the claim about header provisioning speaks of
ExpectedHeaders == IF impl = "app" THEN HEADERS ELSE LEGACY_HEADERS
Provisioned ==
  /\ "sheet" \in hist.invoked
  /\ \/ impl = "app" /\ pc = "prompt"
     \/ impl = "legacy" /\ pc = "l_data"

\* C25: once header provisioning has completed, the first row of the sheet
\* is the expected header: a sheet whose first row was empty has got the
\* header and kept its rows, a sheet whose first row was another one holds
\* the header and nothing else, and a sheet whose first row was the header is
\* as it was.
C25_HeaderProvisioned ==
  Provisioned =>
    LET old   == hist.sheet0
        first == row_values(old, 1)
    IN /\ row_values(sheet, 1) = ExpectedHeaders
       /\ first = <<>> =>
            \A r \in 1..Len(old) : \E q \in 1..Len(sheet) : sheet[q] = old[r]
       /\ (first # <<>> /\ first # ExpectedHeaders) => sheet = <<ExpectedHeaders>>
       /\ first = ExpectedHeaders => sheet = old

\* C26: during an upload, whatever statuses the transport reports (repeated
\* or out of order), the values given to the progress callback never
\* decrease and all lie between 0 and 1.
C26_ProgressMonotone ==
  probe.fn = "upload" =>
    /\ \A i \in 1..Len(probe.value) : probe.value[i] \in 0..Scale
    /\ \A i \in 1..(Len(probe.value) - 1) : probe.value[i] <= probe.value[i + 1]
C26_Witness ==
  /\ probe.fn = "upload" /\ probe.done /\ probe.ok
  /\ probe.arg = <<500, 250, 500, Scale>>
  /\ probe.value = <<500, Scale>>

\* what the claims about the rows speak of: the row the current call
\* appended in add_video, and the status and file id cells of a row
OwnRow == Len(hist.sheet0) + 1
DownloadStatusOf(row) ==
  IF impl = "app" THEN row[ColDownloadStatus] ELSE row[LegacyColDownloadStatus]
FileIdOf(row) ==
  IF impl = "app" THEN row[ColDriveFileId] ELSE row[LegacyColDriveFileId]

\* C27: the row a completed update_video_status has written to is the row
\* the same call appended with add_video, whatever the sheet held before.
C27_FinalizeOwnRow ==
  (impl = "app" /\ hist.rowWrite = "ok") => hist.updRow = OwnRow

\* C28: in every state of the sheet, a data row whose Download Status is
\* Completed has a Drive File ID; and the row a call appended holds Pending
\* and no Drive File ID as long as the call has not updated the sheet.
C28_CompletedHasFileId ==
  /\ \A r \in 2..Len(sheet) :
       DownloadStatusOf(sheet[r]) = "Completed" => FileIdOf(sheet[r]) # ""
  /\ (impl = "app" /\ pc \in {"a_download", "a_upload", "a_update", "a_update_local"}) =>
       /\ sheet[OwnRow][ColDownloadStatus] = "Pending"
       /\ sheet[OwnRow][ColDriveFileId] = ""

\* C29: when the upload is about to be called, the file it is handed exists.
C29_FilePresentAtUpload ==
  pc \in {"a_upload", "l_upload"} => exists(fs, loc.video_path)

\* C30: with UPLOAD_TO_DRIVE false, a call whose download succeeded calls no
\* upload and deletes no file, the file stays on disk, and when the call has
\* ended a row of the video holds the local path as Drive File ID with
\* Download Status still Pending.
C30_LocalOnly ==
  (impl = "app" /\ ~UPLOAD_TO_DRIVE /\ loc.video_path # NoPath) =>
    /\ ~hist.uploadInvoked
    /\ hist.unlinked = {}
    /\ exists(fs, loc.video_path)
    /\ Returned =>
         \E r \in 2..Len(sheet) :
           /\ sheet[r][1] = loc.video_info.title
           /\ sheet[r][ColDriveFileId] = str_path(loc.video_path)
           /\ sheet[r][ColDownloadStatus] = "Pending"

====
